---- MODULE Spec2Model ----
(***************************************************************************)
(* Client-side state synchronization layer of MaatikShemua:                *)
(*   - useAutoSave   (frontend/src/hooks/useAutoSave.ts)                   *)
(*   - useWebSocket, useTaskPolling (frontend/src/hooks/useWebSocket.ts)   *)
(*   - useRangeSelection (frontend/src/hooks/useRangeSelection.ts)         *)
(*   - getTileInferenceProgress (frontend/src/utils/inferenceProgress.ts)  *)
(* Every hook is modelled as a state machine whose actions are the event   *)
(* loop tasks that run its handlers (a caller's call, a timer firing, a    *)
(* promise settling, a socket event).                                      *)
(***************************************************************************)
EXTENDS Integers, Sequences, FiniteSets, Bags, TLC

\* ------------------------------------------------------------------------
\* Bounds of the useAutoSave model: save() calls per debounce window and
\* remote writes issued
\* ------------------------------------------------------------------------
MaxBurst == 2
MaxWrites == 2

Pages == {1, 2}
Versions == {1, 2}

\* A payload is the `lines` array handed to save()/forceSave().  pg records
\* the page whose editor content the array is, v distinguishes successive
\* edits of it.
Payloads == [pg : Pages, v : Versions]
NoPayload == [pg |-> 0, v |-> 0]

\* ------------------------------------------------------------------------
\* State of useAutoSave
\* ------------------------------------------------------------------------
VARIABLES
    pageId,              \* the pageId prop of the current render
    autoSaveMounted,     \* the component using the hook is mounted
    localStorage,        \* window.localStorage restricted to the backup keys
    debounceTimer,       \* lodash debounce: [pending, lastArgs]
    saveToServerRef,     \* saveToServerRef.current: the page its closure captured
    inFlight,            \* bag of onSave promises that have not settled
    lastSaved,           \* 0 (null) or the time of the last successful write
    isSaving,
    hasUnsavedChanges,
    error,               \* "null" or "Save failed"
    \* observation (history) variables
    writesIssued,        \* number of onSave calls issued so far
    lastSave,            \* payload of the most recent save() call
    lastSaveConfirmed,   \* a remote write carrying lastSave has succeeded
    lastSaveCleared,     \* clearBackup() was called since the last save()
    window,              \* the current debounce window: save() calls, whether
                         \* their payloads differ, backup and remote writes
    forceOutcome         \* what the caller of the last settled forceSave saw

asVars == <<pageId, autoSaveMounted, localStorage, debounceTimer,
            saveToServerRef, inFlight, lastSaved, isSaving,
            hasUnsavedChanges, error, writesIssued, lastSave,
            lastSaveConfirmed, lastSaveCleared, window, forceOutcome>>

\* ------------------------------------------------------------------------
\* State of useWebSocket
\* ------------------------------------------------------------------------
VARIABLES
    options,             \* the options argument (the same in every render)
    taskId,              \* the taskId argument of the current render
    wsMounted,           \* the component using the hook is mounted
    sockets,             \* every WebSocket created: [task, readyState]
    wsRef,               \* wsRef.current: 0 (null) or an index of sockets
    status,              \* exposed connection state
    taskData,            \* exposed task snapshot
    attemptsRef,
    taskStatusRef,
    timers,              \* bag of pending setTimeout(connect, delay)
    \* observation (history) variables
    subscriptions,       \* number of times the connecting effect has run
    onMessageCalls,      \* per task id, number of options.onMessage calls
    onErrorCalls,        \* number of options.onError calls
    parseErrors,         \* number of messages on which JSON.parse threw
    terminalSeen,        \* task ids for which a terminal snapshot was handled
    closesSinceOpen,     \* non-terminal close events since the last open event
    exhausted            \* a close found attempts = maxAttempts; no effect since

wsVars == <<options, taskId, wsMounted, sockets, wsRef, status, taskData, attemptsRef,
            taskStatusRef, timers, subscriptions, onMessageCalls,
            onErrorCalls, parseErrors, terminalSeen, closesSinceOpen,
            exhausted>>

\* ------------------------------------------------------------------------
\* State of useTaskPolling
\* ------------------------------------------------------------------------
VARIABLES
    pollTaskId,          \* the taskId argument of the current render
    pollMounted,         \* the component using the hook is mounted
    pollRuns,            \* every run of the effect that started polling: its
                         \* task, its `cancelled` flag, its getTaskStatus
                         \* requests in flight and its pending setTimeout(poll)
    pollTaskData,        \* exposed task snapshot
    isPolling,
    \* observation (history) variables
    pollsIssued          \* number of getTaskStatus requests issued so far

pollVars == <<pollTaskId, pollMounted, pollRuns, pollTaskData, isPolling,
              pollsIssued>>

\* ------------------------------------------------------------------------
\* State of useRangeSelection
\* ------------------------------------------------------------------------
VARIABLES
    orderedIds,          \* the orderedIds argument of the last render
    state,               \* the state of the last render: {selectedIds, anchorId}
    queued,              \* React's queue of state updates not yet rendered,
                         \* held as the state they produce when they are
                         \* applied in order; equal to state when it is empty
    \* observation (history) variables
    expected,            \* the state of a run of the same calls in which
                         \* every call is rendered before the next one
    lastCall             \* the last onItemClick or clear call: its id and
                         \* the modifiers the handler read

rsVars == <<orderedIds, state, queued, expected, lastCall>>

\* ------------------------------------------------------------------------
\* A tile that shows the inference progress of one page
\* ------------------------------------------------------------------------
VARIABLES
    tileInputs,          \* the arguments of getTileInferenceProgress: task,
                         \* inferencePageIds, pageId
    tileResult           \* what the call returned, once it was made

tileVars == <<tileInputs, tileResult>>

\* ------------------------------------------------------------------------
\* The component that uses useAutoSave
\* ------------------------------------------------------------------------
VARIABLES
    callerDone           \* the caller has made its last call on the hook

callerVars == <<callerDone>>

vars == <<asVars, wsVars, pollVars, rsVars, tileVars, callerVars>>

\* What the actions of one hook leave alone: the state of the other hooks
notAutoSave == <<wsVars, pollVars, rsVars, tileVars, callerVars>>
notWebSocket == <<asVars, pollVars, rsVars, tileVars, callerVars>>
notPolling == <<asVars, wsVars, rsVars, tileVars, callerVars>>
notRangeSelection == <<asVars, wsVars, pollVars, tileVars, callerVars>>
notTile == <<asVars, wsVars, pollVars, rsVars, callerVars>>

\* ------------------------------------------------------------------------
\* useAutoSave
\* ------------------------------------------------------------------------
\* `maatik_backup_${pageId}`
backupKey(p) == <<"maatik_backup", p>>

Keys == {backupKey(p) : p \in Pages}

NoItem == <<"null">>

\* A serialization that loses the lines of the record
JSONstringifyNoLines(rec) == <<"json", NoPayload, rec.timestamp>>

\* JSON.stringify({lines, timestamp}) and JSON.parse of the stored string.
JSONstringify(rec) == <<"json", rec.lines, rec.timestamp>>

JSONparse(str) == [lines |-> str[2], timestamp |-> str[3]]

NoTimer == [pending |-> FALSE, lastArgs |-> NoPayload]

NoWindow == [calls |-> 0, differ |-> FALSE, localWrites |-> 0,
             remoteWrites |-> 0, sent |-> NoPayload]

NoOutcome == [settled |-> "none", writeOk |-> FALSE]

\* new Date(): a logical clock that advances when a remote write settles
now == writesIssued - BagCardinality(inFlight)

\* getBackup(): the parsed record stored under the current backup key; null
\* when there is none or when JSON.parse throws
getBackup ==
    LET backup == localStorage[backupKey(pageId)] IN
    IF backup = NoItem \/ backup[1] # "json"
    THEN NoItem
    ELSE JSONparse(backup)

InitAutoSave ==
    /\ pageId = 1
    /\ autoSaveMounted = TRUE
    /\ localStorage = [k \in Keys |-> NoItem]
    /\ debounceTimer = NoTimer
    /\ saveToServerRef = 1
    /\ inFlight = EmptyBag
    /\ lastSaved = 0
    /\ isSaving = FALSE
    /\ hasUnsavedChanges = FALSE
    /\ error = "null"
    /\ writesIssued = 0
    /\ lastSave = NoPayload
    /\ lastSaveConfirmed = FALSE
    /\ lastSaveCleared = FALSE
    /\ window = NoWindow
    /\ forceOutcome = NoOutcome

\* The part of saveToServer that runs synchronously, up to `await onSave`:
\* it starts the remote write with the page and backup key of its closure.
saveToServerStart(closurePage, lines, origin) ==
    /\ isSaving' = TRUE
    /\ error' = "null"
    /\ inFlight' = inFlight (+) SetToBag({[page |-> closurePage,
                                  lines |-> lines, origin |-> origin]})
    /\ writesIssued' = writesIssued + 1

\* A debounce that keeps the arguments present when its timer was scheduled
debouncedSaveLeading(lines) ==
    debounceTimer' = [pending |-> TRUE,
                      lastArgs |-> IF debounceTimer.pending
                                   THEN debounceTimer.lastArgs ELSE lines]

\* debounce(...)(lines): remember the latest arguments and (re)start the timer
debouncedSave(lines) ==
    debounceTimer' = [pending |-> TRUE, lastArgs |-> lines]

\* debouncedSave.cancel()
debouncedSaveCancel ==
    debounceTimer' = NoTimer

\* save(lines): saveToLocalStorage(lines); debouncedSave(lines)
save(lines) ==
    /\ autoSaveMounted
    /\ lines.pg = pageId
    /\ window.calls < MaxBurst \/ ~debounceTimer.pending
    /\ localStorage' = [localStorage EXCEPT ![backupKey(pageId)] =
                          JSONstringify([lines |-> lines, timestamp |-> now])]
    /\ hasUnsavedChanges' = TRUE
    /\ debouncedSave(lines)
    /\ lastSave' = lines
    /\ lastSaveConfirmed' = FALSE
    /\ lastSaveCleared' = FALSE
    /\ window' = IF debounceTimer.pending
                 THEN [window EXCEPT !.calls = @ + 1, !.localWrites = @ + 1,
                                     !.differ = @ \/ lines # lastSave]
                 ELSE [calls |-> 1, differ |-> FALSE, localWrites |-> 1,
                       remoteWrites |-> 0, sent |-> NoPayload]
    /\ UNCHANGED <<pageId, autoSaveMounted, saveToServerRef, inFlight,
                   lastSaved, isSaving, error, writesIssued, forceOutcome>>
    /\ UNCHANGED notAutoSave

\* The debounce timer fires: the trailing edge invokes
\* saveToServerRef.current(lastArgs).
debouncedInvoke ==
    /\ debounceTimer.pending
    /\ writesIssued < MaxWrites
    /\ debounceTimer' = NoTimer
    /\ saveToServerStart(saveToServerRef, debounceTimer.lastArgs, "debounce")
    /\ window' = [window EXCEPT !.remoteWrites = @ + 1,
                                !.sent = debounceTimer.lastArgs]
    /\ UNCHANGED <<pageId, autoSaveMounted, localStorage, saveToServerRef,
                   lastSaved, hasUnsavedChanges, lastSave,
                   lastSaveConfirmed, lastSaveCleared, forceOutcome>>
    /\ UNCHANGED notAutoSave

\* A forceSave that starts its write without cancelling the debounce
forceSaveKeepsTimer(lines) ==
    /\ autoSaveMounted
    /\ lines.pg = pageId
    /\ writesIssued < MaxWrites
    /\ saveToServerStart(pageId, lines, "force")
    /\ UNCHANGED <<pageId, autoSaveMounted, localStorage, debounceTimer,
                   saveToServerRef, lastSaved, hasUnsavedChanges, lastSave,
                   lastSaveConfirmed, lastSaveCleared, window, forceOutcome>>
    /\ UNCHANGED notAutoSave

\* forceSave(lines): debouncedSave.cancel(); await saveToServer(lines)
forceSave(lines) ==
    /\ autoSaveMounted
    /\ lines.pg = pageId
    /\ writesIssued < MaxWrites
    /\ debouncedSaveCancel
    /\ saveToServerStart(pageId, lines, "force")
    /\ window' = IF debounceTimer.pending THEN NoWindow ELSE window
    /\ UNCHANGED <<pageId, autoSaveMounted, localStorage, saveToServerRef,
                   lastSaved, hasUnsavedChanges, lastSave,
                   lastSaveConfirmed, lastSaveCleared, forceOutcome>>
    /\ UNCHANGED notAutoSave

\* What the promise returned by forceSave settles to when its remote write
\* has settled: saveToServer catches the rejection of onSave, so nothing is
\* rethrown to `await saveToServer(lines)`.
forceSaveSettles(writeOk) == "resolved"

\* A success path that leaves the backup in the store
onSaveResolvedKeepsBackup(w) ==
    /\ BagIn(w, inFlight)
    /\ inFlight' = inFlight (-) SetToBag({w})
    /\ IF autoSaveMounted
       THEN /\ lastSaved' = now + 1
            /\ hasUnsavedChanges' = FALSE
            /\ isSaving' = FALSE
       ELSE UNCHANGED <<lastSaved, hasUnsavedChanges, isSaving>>
    /\ lastSaveConfirmed' = (lastSaveConfirmed \/ w.lines = lastSave)
    /\ forceOutcome' = IF w.origin = "force"
                       THEN [settled |-> forceSaveSettles(TRUE), writeOk |-> TRUE]
                       ELSE forceOutcome
    /\ UNCHANGED <<pageId, autoSaveMounted, localStorage, debounceTimer,
                   saveToServerRef, error, writesIssued, lastSave,
                   lastSaveCleared, window>>
    /\ UNCHANGED notAutoSave

\* onSave(lines) resolves: the try block of saveToServer continues, then the
\* finally block.  The state setters are no-ops once the component is gone.
\* setLastSaved(new Date()) reads the clock after this write has settled.
onSaveResolved(w) ==
    /\ BagIn(w, inFlight)
    /\ inFlight' = inFlight (-) SetToBag({w})
    /\ localStorage' = [localStorage EXCEPT ![backupKey(w.page)] = NoItem]
    /\ IF autoSaveMounted
       THEN /\ lastSaved' = now + 1
            /\ hasUnsavedChanges' = FALSE
            /\ isSaving' = FALSE
       ELSE UNCHANGED <<lastSaved, hasUnsavedChanges, isSaving>>
    /\ lastSaveConfirmed' = (lastSaveConfirmed \/ w.lines = lastSave)
    /\ forceOutcome' = IF w.origin = "force"
                       THEN [settled |-> forceSaveSettles(TRUE), writeOk |-> TRUE]
                       ELSE forceOutcome
    /\ UNCHANGED <<pageId, autoSaveMounted, debounceTimer, saveToServerRef,
                   error, writesIssued, lastSave, lastSaveCleared, window>>
    /\ UNCHANGED notAutoSave

\* A failure handler that schedules the failed payload again
onSaveRejectedRetries(w) ==
    /\ BagIn(w, inFlight)
    /\ inFlight' = inFlight (-) SetToBag({w})
    /\ IF autoSaveMounted
       THEN /\ error' = "Save failed"
            /\ isSaving' = FALSE
       ELSE UNCHANGED <<error, isSaving>>
    /\ debounceTimer' = [pending |-> TRUE, lastArgs |-> w.lines]
    /\ forceOutcome' = IF w.origin = "force"
                       THEN [settled |-> forceSaveSettles(FALSE), writeOk |-> FALSE]
                       ELSE forceOutcome
    /\ UNCHANGED <<pageId, autoSaveMounted, localStorage,
                   saveToServerRef, lastSaved, hasUnsavedChanges,
                   writesIssued, lastSave, lastSaveConfirmed, lastSaveCleared,
                   window>>
    /\ UNCHANGED notAutoSave

\* onSave(lines) rejects: the catch block of saveToServer, then the finally
\* block.
onSaveRejected(w) ==
    /\ BagIn(w, inFlight)
    /\ inFlight' = inFlight (-) SetToBag({w})
    /\ IF autoSaveMounted
       THEN /\ error' = "Save failed"
            /\ isSaving' = FALSE
       ELSE UNCHANGED <<error, isSaving>>
    /\ forceOutcome' = IF w.origin = "force"
                       THEN [settled |-> forceSaveSettles(FALSE), writeOk |-> FALSE]
                       ELSE forceOutcome
    /\ UNCHANGED <<pageId, autoSaveMounted, localStorage, debounceTimer,
                   saveToServerRef, lastSaved, hasUnsavedChanges,
                   writesIssued, lastSave, lastSaveConfirmed, lastSaveCleared,
                   window>>
    /\ UNCHANGED notAutoSave

\* clearBackup()
clearBackup ==
    /\ autoSaveMounted
    /\ localStorage[backupKey(pageId)] # NoItem
    /\ localStorage' = [localStorage EXCEPT ![backupKey(pageId)] = NoItem]
    /\ lastSaveCleared' = TRUE
    /\ UNCHANGED <<pageId, autoSaveMounted, debounceTimer, saveToServerRef,
                   inFlight, lastSaved, isSaving, hasUnsavedChanges, error,
                   writesIssued, lastSave, lastSaveConfirmed, window,
                   forceOutcome>>
    /\ UNCHANGED notAutoSave

\* The caller re-renders the hook with another pageId: backupKey and
\* saveToServer are rebuilt and the effect stores the new saveToServer in
\* saveToServerRef.  debouncedSave is the same object in every render, so
\* the unmount cleanup (its only dependency) does not run.
setPageId(q) ==
    /\ autoSaveMounted
    /\ q # pageId
    /\ pageId' = q
    /\ saveToServerRef' = q
    /\ UNCHANGED <<autoSaveMounted, localStorage, debounceTimer, inFlight,
                   lastSaved, isSaving, hasUnsavedChanges, error,
                   writesIssued, lastSave, lastSaveConfirmed, lastSaveCleared,
                   window, forceOutcome>>
    /\ UNCHANGED notAutoSave

\* Unmount: the cleanup effect runs debouncedSave.cancel()
unmountAutoSave ==
    /\ autoSaveMounted
    /\ autoSaveMounted' = FALSE
    /\ debouncedSaveCancel
    /\ window' = IF debounceTimer.pending THEN NoWindow ELSE window
    /\ UNCHANGED <<pageId, localStorage, saveToServerRef, inFlight, lastSaved,
                   isSaving, hasUnsavedChanges, error, writesIssued,
                   lastSave, lastSaveConfirmed, lastSaveCleared, forceOutcome>>
    /\ UNCHANGED notAutoSave

\* Every remote write the hook can start
Writes == [page : Pages, lines : Payloads, origin : {"debounce", "force"}]

NextAutoSave ==
    \/ \E lines \in Payloads : save(lines)
    \/ debouncedInvoke
    \/ \E lines \in Payloads : forceSave(lines)
    \/ \E w \in Writes : onSaveResolved(w)
    \/ \E w \in Writes : onSaveRejected(w)
    \/ clearBackup
    \/ \E q \in Pages : setPageId(q)
    \/ unmountAutoSave

\* The caller of useAutoSave up to its last call, which is a save(): the
\* editor calls save, forceSave and clearBackup and re-renders with another
\* pageId, then leaves the hook alone with its timer and its promises.
InitCaller == callerDone = FALSE

\* save(lines) while a remote write can still be issued for it
callerSave(lines) ==
    /\ ~callerDone
    /\ writesIssued < MaxWrites
    /\ save(lines)

callerForceSave(lines) ==
    /\ ~callerDone
    /\ forceSave(lines)

callerClearBackup ==
    /\ ~callerDone
    /\ clearBackup

callerSetPageId(q) ==
    /\ ~callerDone
    /\ setPageId(q)

\* The last call was save(lastSave): its timer is pending with its payload,
\* for the page of the current render, and clearBackup was not called since
callerStops ==
    /\ ~callerDone
    /\ debounceTimer.pending
    /\ debounceTimer.lastArgs = lastSave
    /\ lastSave.pg = pageId
    /\ ~lastSaveCleared
    /\ callerDone' = TRUE
    /\ UNCHANGED <<asVars, wsVars, pollVars, rsVars, tileVars>>

\* Every remote write succeeds
NextAutoSaveSettles ==
    \/ \E lines \in Payloads : callerSave(lines)
    \/ \E lines \in Payloads : callerForceSave(lines)
    \/ callerClearBackup
    \/ \E q \in Pages : callerSetPageId(q)
    \/ callerStops
    \/ debouncedInvoke
    \/ \E w \in Writes : onSaveResolved(w)

\* ------------------------------------------------------------------------
\* useWebSocket
\* ------------------------------------------------------------------------
\* Bounds: sockets created, and inputs (effect runs, messages, error events)
MaxSockets == 3
MaxInputs == 4

Tasks == {"A", "B"}
NoTask == "null"
Statuses == {"pending", "running", "completed", "failed"}

\* The options argument: undefined fields (Undefined) take the defaults.
Undefined == -1
DefaultReconnectAttempts == 5
DefaultReconnectInterval == 2000
OptionsSet == {[reconnectAttempts |-> Undefined, reconnectInterval |-> Undefined],
               [reconnectAttempts |-> 1, reconnectInterval |-> 500]}


ClosedSocket == [task |-> NoTask, readyState |-> "closed"]

NoData == [task_id |-> NoTask, status |-> "null"]

\* const maxAttempts = options.reconnectAttempts ?? 5
maxAttempts ==
    IF options.reconnectAttempts = Undefined
    THEN DefaultReconnectAttempts ELSE options.reconnectAttempts

\* const interval = options.reconnectInterval ?? 2000
interval ==
    IF options.reconnectInterval = Undefined
    THEN DefaultReconnectInterval ELSE options.reconnectInterval

isTerminal(st) == st = "completed" \/ st = "failed"

RECURSIVE Pow(_, _)
\* Math.pow(b, n) for a non-negative integer n
Pow(b, n) == IF n = 0 THEN 1 ELSE b * Pow(b, n - 1)

\* A backoff that counts the attempt before it computes the delay
reconnectDelayNext(attempts) == interval * Pow(2, attempts + 1)

\* const delay = interval * Math.pow(2, attemptsRef.current)
reconnectDelay(attempts) == interval * Pow(2, attempts)

\* The message event's data as sent by the server, and JSON.parse of it
messageData(task, st) == <<"json", task, st>>

\* Data that is no JSON text: JSON.parse throws a SyntaxError on it
MalformedData == <<"garbage">>

parseThrows(data) == data[1] # "json"

parseTask(data) == [task_id |-> data[2], status |-> data[3]]

\* ws.close(): a socket that is connecting or open starts closing, its close
\* event is delivered by a later task; otherwise nothing happens
wsClose(socks, i) ==
    IF i \in 1..Len(socks) /\ socks[i].readyState \in {"connecting", "open"}
    THEN [socks EXCEPT ![i].readyState = "closing"]
    ELSE socks

InitWebSocket ==
    /\ options \in OptionsSet
    /\ taskId = NoTask
    /\ wsMounted = TRUE
    /\ sockets = <<>>
    /\ wsRef = 0
    /\ status = "closed"
    /\ taskData = NoData
    /\ attemptsRef = 0
    /\ taskStatusRef = "null"
    /\ timers = EmptyBag
    /\ subscriptions = 0
    /\ onMessageCalls = [t \in Tasks |-> 0]
    /\ onErrorCalls = 0
    /\ parseErrors = 0
    /\ terminalSeen = {}
    /\ closesSinceOpen = 0
    /\ exhausted = FALSE

RECURSIVE SumOver(_, _)
SumOver(f, S) ==
    IF S = {} THEN 0
    ELSE LET x == CHOOSE y \in S : TRUE IN f[x] + SumOver(f, S \ {x})

\* Inputs consumed so far: runs of the effect, messages and error events
inputs ==
    subscriptions + SumOver(onMessageCalls, Tasks) + onErrorCalls + parseErrors

\* connect() of the render whose taskId is task, applied to the sockets socks:
\* new WebSocket(...); wsRef.current = ws; setStatus('connecting')
connect(task, socks) ==
    /\ Len(socks) < MaxSockets
    /\ sockets' = Append(socks, [task |-> task, readyState |-> "connecting"])
    /\ wsRef' = Len(socks) + 1
    /\ status' = IF wsMounted THEN "connecting" ELSE status

\* The effect of useEffect(..., [taskId, connect]) runs again because the
\* caller passed another taskId or because connect was rebuilt (options is a
\* dependency of connect): cleanup of the previous run, then the new run.
setTaskId(t) ==
    /\ wsMounted
    /\ inputs < MaxInputs
    /\ t # NoTask \/ taskId # NoTask
    /\ taskId' = t
    /\ subscriptions' = subscriptions + 1
    /\ exhausted' = FALSE
    /\ IF t # NoTask
       THEN connect(t, wsClose(sockets, wsRef))
       ELSE /\ sockets' = wsClose(sockets, wsRef)
            /\ UNCHANGED <<wsRef, status>>
    /\ UNCHANGED <<parseErrors, options, wsMounted, taskData, attemptsRef, taskStatusRef, timers,
                   onMessageCalls, onErrorCalls, terminalSeen,
                   closesSinceOpen>>
    /\ UNCHANGED notWebSocket

\* Unmount: the cleanup wsRef.current?.close()
unmountWebSocket ==
    /\ wsMounted
    /\ wsMounted' = FALSE
    /\ sockets' = wsClose(sockets, wsRef)
    /\ UNCHANGED <<parseErrors, options, taskId, wsRef, status, taskData, attemptsRef,
                   taskStatusRef, timers, subscriptions, onMessageCalls,
                   onErrorCalls, terminalSeen, closesSinceOpen,
                   exhausted>>
    /\ UNCHANGED notWebSocket

\* A setTimeout(connect, delay) scheduled by ws.onclose fires
timerFires(tm) ==
    /\ BagIn(tm, timers)
    /\ timers' = timers (-) SetToBag({tm})
    /\ connect(tm.task, sockets)
    /\ UNCHANGED <<parseErrors, options, taskId, wsMounted, taskData, attemptsRef, taskStatusRef,
                   subscriptions, onMessageCalls, onErrorCalls, terminalSeen,
                   closesSinceOpen, exhausted>>
    /\ UNCHANGED notWebSocket

\* An open handler that leaves the attempt counter as it finds it
onopenKeepsAttempts(i) ==
    /\ i \in 1..Len(sockets)
    /\ sockets[i].readyState = "connecting"
    /\ sockets' = [sockets EXCEPT ![i].readyState = "open"]
    /\ status' = IF wsMounted THEN "open" ELSE status
    /\ closesSinceOpen' = 0
    /\ UNCHANGED <<parseErrors, options, taskId, wsMounted, wsRef, taskData, attemptsRef,
                   taskStatusRef, timers, subscriptions, onMessageCalls,
                   onErrorCalls, terminalSeen, exhausted>>
    /\ UNCHANGED notWebSocket

\* ws.onopen
onopen(i) ==
    /\ i \in 1..Len(sockets)
    /\ sockets[i].readyState = "connecting"
    /\ sockets' = [sockets EXCEPT ![i].readyState = "open"]
    /\ status' = IF wsMounted THEN "open" ELSE status
    /\ attemptsRef' = 0
    /\ closesSinceOpen' = 0
    /\ UNCHANGED <<parseErrors, options, taskId, wsMounted, wsRef, taskData, taskStatusRef, timers,
                   subscriptions, onMessageCalls, onErrorCalls, terminalSeen,
                   exhausted>>
    /\ UNCHANGED notWebSocket

\* ws.onmessage for a snapshot with status st of the socket's task
onmessage(i, st) ==
    /\ i \in 1..Len(sockets)
    /\ sockets[i].readyState = "open"
    /\ inputs < MaxInputs
    /\ LET data == parseTask(messageData(sockets[i].task, st)) IN
        /\ taskData' = IF wsMounted THEN data ELSE taskData
        /\ taskStatusRef' = data.status
        /\ onMessageCalls' = [onMessageCalls EXCEPT ![data.task_id] = @ + 1]
        /\ sockets' = IF isTerminal(data.status) THEN wsClose(sockets, i)
                      ELSE sockets
        /\ terminalSeen' = IF isTerminal(data.status)
                           THEN terminalSeen \cup {data.task_id}
                           ELSE terminalSeen
    /\ UNCHANGED <<parseErrors, options, taskId, wsMounted, wsRef, status, attemptsRef, timers,
                   subscriptions, onErrorCalls, closesSinceOpen,
                   exhausted>>
    /\ UNCHANGED notWebSocket

\* A message handler that exposes null for data it cannot parse
onmessageMalformedNulls(i) ==
    /\ i \in 1..Len(sockets)
    /\ sockets[i].readyState = "open"
    /\ inputs < MaxInputs
    /\ parseThrows(MalformedData)
    /\ parseErrors' = parseErrors + 1
    /\ taskData' = IF wsMounted THEN NoData ELSE taskData
    /\ UNCHANGED <<options, taskId, wsMounted, sockets, wsRef, status,
                   attemptsRef, taskStatusRef, timers, subscriptions,
                   onMessageCalls, onErrorCalls, terminalSeen,
                   closesSinceOpen, exhausted>>
    /\ UNCHANGED notWebSocket

\* ws.onmessage for data that is not JSON: JSON.parse throws in the first
\* statement of the handler, the exception leaves the handler and the rest
\* of it does not run.  The socket and its handlers are not affected.
onmessageMalformed(i) ==
    /\ i \in 1..Len(sockets)
    /\ sockets[i].readyState = "open"
    /\ inputs < MaxInputs
    /\ parseThrows(MalformedData)
    /\ parseErrors' = parseErrors + 1
    /\ UNCHANGED <<options, taskId, wsMounted, sockets, wsRef, status,
                   taskData, attemptsRef, taskStatusRef, timers,
                   subscriptions, onMessageCalls, onErrorCalls, terminalSeen,
                   closesSinceOpen, exhausted>>
    /\ UNCHANGED notWebSocket

\* An error handler that also reports the connection as closed
onerrorCloses(i) ==
    /\ i \in 1..Len(sockets)
    /\ sockets[i].readyState \in {"connecting", "open", "closing"}
    /\ inputs < MaxInputs
    /\ onErrorCalls' = onErrorCalls + 1
    /\ status' = IF wsMounted THEN "closed" ELSE status
    /\ UNCHANGED <<parseErrors, options, taskId, wsMounted, sockets, wsRef, taskData,
                   attemptsRef, taskStatusRef, timers, subscriptions,
                   onMessageCalls, terminalSeen, closesSinceOpen,
                   exhausted>>
    /\ UNCHANGED notWebSocket

\* ws.onerror
onerror(i) ==
    /\ i \in 1..Len(sockets)
    /\ sockets[i].readyState \in {"connecting", "open", "closing"}
    /\ inputs < MaxInputs
    /\ onErrorCalls' = onErrorCalls + 1
    /\ UNCHANGED <<parseErrors, options, taskId, wsMounted, sockets, wsRef, status, taskData,
                   attemptsRef, taskStatusRef, timers, subscriptions,
                   onMessageCalls, terminalSeen, closesSinceOpen,
                   exhausted>>
    /\ UNCHANGED notWebSocket

\* ws.onclose: the close event of socket i (the connection failed, the server
\* closed it, or close() had been called on it)
onclose(i) ==
    /\ i \in 1..Len(sockets)
    /\ sockets[i].readyState \in {"connecting", "open", "closing"}
    /\ sockets' = [sockets EXCEPT ![i] = ClosedSocket]
    /\ status' = IF wsMounted THEN "closed" ELSE status
    /\ IF ~isTerminal(taskStatusRef) /\ attemptsRef < maxAttempts
       THEN /\ timers' = timers (+) SetToBag({[task |-> sockets[i].task,
                                delay |-> reconnectDelay(attemptsRef)]})
            /\ attemptsRef' = attemptsRef + 1
       ELSE UNCHANGED <<timers, attemptsRef>>
    /\ closesSinceOpen' = IF isTerminal(taskStatusRef) \/ closesSinceOpen > maxAttempts
                          THEN closesSinceOpen ELSE closesSinceOpen + 1
    /\ exhausted' = (exhausted \/
                     (~isTerminal(taskStatusRef) /\ attemptsRef = maxAttempts))
    /\ UNCHANGED <<parseErrors, options, taskId, wsMounted, wsRef, taskData, taskStatusRef,
                   subscriptions, onMessageCalls, onErrorCalls, terminalSeen>>
    /\ UNCHANGED notWebSocket

\* Every timer ws.onclose can schedule under some options of OptionsSet
TimerSet ==
    [task : Tasks,
     delay : {(IF o.reconnectInterval = Undefined
               THEN DefaultReconnectInterval ELSE o.reconnectInterval) * Pow(2, a) :
              o \in OptionsSet, a \in 0..(DefaultReconnectAttempts - 1)}]

NextWebSocket ==
    \/ \E t \in Tasks \cup {NoTask} : setTaskId(t)
    \/ unmountWebSocket
    \/ \E tm \in TimerSet : timerFires(tm)
    \/ \E i \in 1..MaxSockets : onopen(i)
    \/ \E i \in 1..MaxSockets, st \in Statuses : onmessage(i, st)
    \/ \E i \in 1..MaxSockets : onmessageMalformed(i)
    \/ \E i \in 1..MaxSockets : onerror(i)
    \/ \E i \in 1..MaxSockets : onclose(i)

\* ------------------------------------------------------------------------
\* useTaskPolling
\* ------------------------------------------------------------------------
\* Bounds: runs of the effect that start polling, and requests issued
MaxPollRuns == 2
MaxPolls == 3

\* The delays of setTimeout(poll, ...): after a response, after a fetch error
PollDelays == {2000, 5000}

\* A schedule that retries after an error as fast as after a response
pollDelaySame(failed) == 2000

\* setTimeout(poll, 2000) after a response, setTimeout(poll, 5000) in catch
pollDelay(failed) == IF failed THEN 5000 ELSE 2000

\* What the effect's closure holds when it starts polling task t
NewRun(t) == [task |-> t, cancelled |-> FALSE, requests |-> 0,
              timers |-> EmptyBag, finished |-> FALSE, suppressed |-> {}]

\* A poll that does not look at the cancelled flag
pollUnguarded(run) == [run EXCEPT !.requests = @ + 1]

\* A poll that also arms the next poll when it issues its request
pollArmsNext(run) ==
    IF run.cancelled
    THEN run
    ELSE [run EXCEPT !.requests = @ + 1,
                     !.timers = @ (+) SetToBag({pollDelay(FALSE)})]

\* poll() up to its await: if (cancelled) return; api.getTaskStatus(taskId)
poll(run) ==
    IF run.cancelled
    THEN run
    ELSE [run EXCEPT !.requests = @ + 1]

\* The cleanup of the effect's last run: cancelled = true.  A run whose
\* taskId was null returned no cleanup.
pollCleanup(runs) ==
    IF pollTaskId # NoTask
    THEN [runs EXCEPT ![Len(runs)].cancelled = TRUE]
    ELSE runs

InitPolling ==
    /\ pollTaskId = NoTask
    /\ pollMounted = TRUE
    /\ pollRuns = <<>>
    /\ pollTaskData = NoData
    /\ isPolling = FALSE
    /\ pollsIssued = 0

\* The effect of useEffect(..., [taskId]) runs again because the caller
\* passed another taskId: cleanup of the previous run, then the new run.
setPollTaskId(t) ==
    /\ pollMounted
    /\ t # pollTaskId
    /\ pollTaskId' = t
    /\ IF t = NoTask
       THEN /\ pollRuns' = pollCleanup(pollRuns)
            /\ pollTaskData' = NoData
            /\ isPolling' = FALSE
            /\ UNCHANGED pollsIssued
       ELSE /\ Len(pollRuns) < MaxPollRuns
            /\ pollsIssued < MaxPolls
            /\ pollRuns' = Append(pollCleanup(pollRuns), poll(NewRun(t)))
            /\ isPolling' = TRUE
            /\ pollsIssued' = pollsIssued + poll(NewRun(t)).requests
            /\ UNCHANGED pollTaskData
    /\ UNCHANGED pollMounted
    /\ UNCHANGED notPolling

\* Unmount: the cleanup of the last run
unmountPolling ==
    /\ pollMounted
    /\ pollMounted' = FALSE
    /\ pollRuns' = pollCleanup(pollRuns)
    /\ isPolling' = IF pollTaskId # NoTask THEN FALSE ELSE isPolling
    /\ UNCHANGED <<pollTaskId, pollTaskData, pollsIssued>>
    /\ UNCHANGED notPolling

\* api.getTaskStatus of run r resolves with a snapshot of status st: poll()
\* continues after its await
pollResponse(r, st) ==
    /\ r \in 1..Len(pollRuns)
    /\ pollRuns[r].requests > 0
    /\ LET run == [pollRuns[r] EXCEPT !.requests = @ - 1]
           data == parseTask(messageData(run.task, st))
       IN  IF run.cancelled
           THEN /\ pollRuns' = [pollRuns EXCEPT ![r] =
                       [run EXCEPT !.suppressed = @ \cup {"response"}]]
                /\ UNCHANGED <<pollTaskData, isPolling>>
           ELSE /\ pollTaskData' = data
                /\ IF ~isTerminal(data.status)
                   THEN /\ pollRuns' = [pollRuns EXCEPT ![r] =
                               [run EXCEPT !.timers =
                                   @ (+) SetToBag({pollDelay(FALSE)})]]
                        /\ UNCHANGED isPolling
                   ELSE /\ pollRuns' = [pollRuns EXCEPT ![r] =
                               [run EXCEPT !.finished = TRUE]]
                        /\ isPolling' = FALSE
    /\ UNCHANGED <<pollTaskId, pollMounted, pollsIssued>>
    /\ UNCHANGED notPolling

\* A catch block that logs the error and schedules nothing
pollErrorGivesUp(r) ==
    /\ r \in 1..Len(pollRuns)
    /\ pollRuns[r].requests > 0
    /\ LET run == [pollRuns[r] EXCEPT !.requests = @ - 1]
       IN  pollRuns' = [pollRuns EXCEPT ![r] =
               IF run.cancelled
               THEN [run EXCEPT !.suppressed = @ \cup {"error"}]
               ELSE run]
    /\ UNCHANGED <<pollTaskId, pollMounted, pollTaskData, isPolling,
                   pollsIssued>>
    /\ UNCHANGED notPolling

\* api.getTaskStatus of run r rejects: the catch block of poll()
pollError(r) ==
    /\ r \in 1..Len(pollRuns)
    /\ pollRuns[r].requests > 0
    /\ LET run == [pollRuns[r] EXCEPT !.requests = @ - 1]
       IN  pollRuns' = [pollRuns EXCEPT ![r] =
               IF run.cancelled
               THEN [run EXCEPT !.suppressed = @ \cup {"error"}]
               ELSE [run EXCEPT !.timers = @ (+) SetToBag({pollDelay(TRUE)})]]
    /\ UNCHANGED <<pollTaskId, pollMounted, pollTaskData, isPolling,
                   pollsIssued>>
    /\ UNCHANGED notPolling

\* A setTimeout(poll, d) of run r fires
pollTimerFires(r, d) ==
    /\ r \in 1..Len(pollRuns)
    /\ BagIn(d, pollRuns[r].timers)
    /\ pollRuns[r].cancelled \/ pollsIssued < MaxPolls
    /\ LET run == [pollRuns[r] EXCEPT !.timers = @ (-) SetToBag({d})]
       IN  /\ pollRuns' = [pollRuns EXCEPT ![r] =
                   [poll(run) EXCEPT !.suppressed =
                       IF run.cancelled THEN @ \cup {"timer"} ELSE @]]
           /\ pollsIssued' = pollsIssued + (poll(run).requests - run.requests)
    /\ UNCHANGED <<pollTaskId, pollMounted, pollTaskData, isPolling>>
    /\ UNCHANGED notPolling

NextPolling ==
    \/ \E t \in Tasks \cup {NoTask} : setPollTaskId(t)
    \/ unmountPolling
    \/ \E r \in 1..MaxPollRuns, st \in Statuses : pollResponse(r, st)
    \/ \E r \in 1..MaxPollRuns : pollError(r)
    \/ \E r \in 1..MaxPollRuns, d \in PollDelays : pollTimerFires(r, d)

\* ------------------------------------------------------------------------
\* useRangeSelection
\* ------------------------------------------------------------------------
Ids == {"a", "b", "c"}
NoId == "null"

\* The arrays a caller passes as orderedIds: the ids of its rows in visual
\* order, each id once
OrderedSeqs ==
    UNION {{sq \in [1..n -> Ids] : \A i, j \in 1..n : sq[i] = sq[j] => i = j} :
           n \in 0..Cardinality(Ids)}

\* The fields of the click event the handler reads
Events == [metaKey : BOOLEAN, ctrlKey : BOOLEAN, shiftKey : BOOLEAN]

EmptyState == [selectedIds |-> {}, anchorId |-> NoId]

NoCall == [op |-> "none", id |-> NoId, isMeta |-> FALSE, isShift |-> FALSE]

\* Array.prototype.indexOf: the 0-based index of the first occurrence, or -1
indexOf(arr, x) ==
    IF \E i \in 1..Len(arr) : arr[i] = x
    THEN (CHOOSE i \in 1..Len(arr) :
              arr[i] = x /\ \A j \in 1..(i - 1) : arr[j] # x) - 1
    ELSE -1

\* A loop that stops before the end index
addRangeExclusive(arr, start, end) == {arr[i + 1] : i \in start..(end - 1)}

\* nextSelected.clear(); for (i = start; i <= end; i++) nextSelected.add(orderedIds[i])
addRange(arr, start, end) == {arr[i + 1] : i \in start..end}

\* A toggle that never removes
toggleAdds(selected, id) == selected \cup {id}

\* if (nextSelected.has(id)) nextSelected.delete(id) else nextSelected.add(id)
toggle(selected, id) ==
    IF id \in selected THEN selected \ {id} ELSE selected \cup {id}

\* A meta click that also moves the anchor to the clicked id
metaClickMovesAnchor(prevState, id) ==
    [selectedIds |-> toggle(prevState.selectedIds, id), anchorId |-> id]

\* The meta branch: toggle the clicked id, leave others and anchor as-is
metaClick(prevState, id) ==
    [selectedIds |-> toggle(prevState.selectedIds, id),
     anchorId |-> prevState.anchorId]

\* A plain click that selects the id and sets no anchor
plainClickNoAnchor(id) == [selectedIds |-> {id}, anchorId |-> NoId]

\* Plain click: select only this id and update anchor
plainClick(id) == [selectedIds |-> {id}, anchorId |-> id]

\* A fallback that drops the selection
fallbackClickClears(id) == [selectedIds |-> {}, anchorId |-> NoId]

\* Fallback of the shift branch: treat as plain click if no range can be
\* computed
fallbackClick(id) == [selectedIds |-> {id}, anchorId |-> id]

\* The updater function onItemClick passes to setState, for the orderedIds
\* its closure holds
onItemClickUpdater(prevState, arr, id, event) ==
    LET isMeta == event.metaKey \/ event.ctrlKey
        isShift == event.shiftKey
        anchorIndex == indexOf(arr, prevState.anchorId)
        targetIndex == indexOf(arr, id)
        start == IF anchorIndex < targetIndex THEN anchorIndex ELSE targetIndex
        end == IF anchorIndex < targetIndex THEN targetIndex ELSE anchorIndex
    IN  IF isShift /\ prevState.anchorId # NoId
        THEN IF anchorIndex = -1 \/ targetIndex = -1
             THEN fallbackClick(id)
             ELSE [selectedIds |-> addRange(arr, start, end),
                   anchorId |-> prevState.anchorId]
        ELSE IF isMeta
             THEN metaClick(prevState, id)
             ELSE plainClick(id)

\* A clear() that empties the selection only
clearedKeepsAnchor == [selectedIds |-> {}, anchorId |-> queued.anchorId]

\* The value clear() passes to setState
cleared == EmptyState

\* An updater that works on the state of the render that built the handler
prevOfRender == state

\* What React passes to an updater function as prev: the state produced by
\* the updates queued before it
prev == queued

\* isSelected(id)
isSelected(id) == id \in state.selectedIds

InitRangeSelection ==
    /\ orderedIds = <<>>
    /\ state = EmptyState
    /\ queued = EmptyState
    /\ expected = EmptyState
    /\ lastCall = NoCall

\* onItemClick(id, event) of the last render: setState(prev => ...)
onItemClick(id, event) ==
    /\ queued' = onItemClickUpdater(prev, orderedIds, id, event)
    /\ expected' = onItemClickUpdater(expected, orderedIds, id, event)
    /\ lastCall' = [op |-> "onItemClick", id |-> id,
                    isMeta |-> event.metaKey \/ event.ctrlKey,
                    isShift |-> event.shiftKey]
    /\ UNCHANGED <<orderedIds, state>>
    /\ UNCHANGED notRangeSelection

\* clear(): setState({selectedIds: new Set(), anchorId: null})
clear ==
    /\ queued' = cleared
    /\ expected' = EmptyState
    /\ lastCall' = [NoCall EXCEPT !.op = "clear"]
    /\ UNCHANGED <<orderedIds, state>>
    /\ UNCHANGED notRangeSelection

\* React renders the component: the queued updates become the state
render ==
    /\ queued # state
    /\ state' = queued
    /\ UNCHANGED <<orderedIds, queued, expected, lastCall>>
    /\ UNCHANGED notRangeSelection

\* The caller renders the hook with another orderedIds array
setOrderedIds(arr) ==
    /\ arr # orderedIds
    /\ orderedIds' = arr
    /\ state' = queued
    /\ UNCHANGED <<queued, expected, lastCall>>
    /\ UNCHANGED notRangeSelection

NextRangeSelection ==
    \/ \E id \in Ids, event \in Events : onItemClick(id, event)
    \/ clear
    \/ render
    \/ \E arr \in OrderedSeqs : setOrderedIds(arr)

\* ------------------------------------------------------------------------
\* getTileInferenceProgress (frontend/src/utils/inferenceProgress.ts)
\* ------------------------------------------------------------------------
PageIds == {11, 12, 13}

\* inferencePageIds: arrays of up to three page ids, repeated ids included
PageIdSeqs == UNION {[1..n -> PageIds] : n \in 0..3}

\* progress.current as the server reports it, or absent
Currents == {Undefined, 0, 1, 2, 3}

\* Task.progress; a task without progress reads like one whose progress has
\* neither current nor page_id (task.progress?.current is undefined in both)
Progresses == [current : Currents, page_id : PageIds \cup {Undefined}]

NoProgress == [current |-> Undefined, page_id |-> Undefined]

\* task: Task | null | undefined
NullTask == [status |-> "null", progress |-> NoProgress]

TileTasks == {NullTask} \cup [status : Statuses, progress : Progresses]

TileInputs == [task : TileTasks, inferencePageIds : PageIdSeqs, pageId : PageIds]

NoTileInputs == [task |-> NullTask, inferencePageIds |-> <<>>, pageId |-> 11]

\* TileInferenceProgress | undefined
UndefinedResult == [status |-> "undefined", progress |-> Undefined]

NotCalled == [status |-> "none", progress |-> Undefined]

\* Array.prototype.includes
includes(arr, x) == \E i \in 1..Len(arr) : arr[i] = x

\* A current index read without its default
currentIdxRaw(task) == task.progress.current

\* task.progress?.current ?? 0
currentIdx(task) ==
    IF task.progress.current = Undefined THEN 0 ELSE task.progress.current

getTileInferenceProgress(task, inferencePageIds, tilePageId) ==
    IF task = NullTask THEN UndefinedResult
    ELSE IF ~includes(inferencePageIds, tilePageId) THEN UndefinedResult
    ELSE IF task.status = "failed" THEN [status |-> "failed", progress |-> 0]
    ELSE IF task.status = "completed" THEN [status |-> "completed", progress |-> 100]
    ELSE LET idx == indexOf(inferencePageIds, tilePageId)
             currentPageId == task.progress.page_id
         IN  IF currentPageId = tilePageId
             THEN [status |-> "processing", progress |-> 50]
             ELSE IF idx < currentIdx(task)
             THEN [status |-> "completed", progress |-> 100]
             ELSE IF idx = currentIdx(task)
             THEN [status |-> "processing", progress |-> 50]
             ELSE [status |-> "pending", progress |-> 0]

\* The arguments are whatever the caller has at hand
InitTileProgress ==
    /\ tileInputs \in TileInputs
    /\ tileResult = NotCalled

\* The tile is rendered
renderTile ==
    /\ tileResult = NotCalled
    /\ tileResult' = getTileInferenceProgress(tileInputs.task,
                                              tileInputs.inferencePageIds,
                                              tileInputs.pageId)
    /\ UNCHANGED <<tileInputs, notTile>>

NextTileProgress == renderTile

\* ------------------------------------------------------------------------
\* Specifications
\* ------------------------------------------------------------------------
DefaultOptions == [reconnectAttempts |-> Undefined, reconnectInterval |-> Undefined]

Init ==
    /\ InitAutoSave
    /\ InitWebSocket
    /\ InitPolling
    /\ InitRangeSelection
    /\ InitTileProgress
    /\ InitCaller

\* getTileInferenceProgress on every input, next to hooks that are never
\* used
InitTileProgressAlone == Init /\ options = DefaultOptions

SpecTileProgress == InitTileProgressAlone /\ [][NextTileProgress]_vars

\* useRangeSelection alone, next to hooks that are never used
InitRangeSelectionAlone ==
    Init /\ options = DefaultOptions /\ tileInputs = NoTileInputs

SpecRangeSelection == InitRangeSelectionAlone /\ [][NextRangeSelection]_vars

\* useTaskPolling alone, next to hooks that are never used
InitPollingAlone ==
    Init /\ options = DefaultOptions /\ tileInputs = NoTileInputs

SpecPolling == InitPollingAlone /\ [][NextPolling]_vars

\* The event loop runs every timer that is due: a pending setTimeout(poll)
\* fires eventually.  Nothing is assumed of the status endpoint.
SpecPollingFair ==
    /\ InitPollingAlone
    /\ [][NextPolling]_vars
    /\ \A r \in 1..MaxPollRuns, d \in PollDelays : WF_vars(pollTimerFires(r, d))

\* useAutoSave alone, next to a useWebSocket that is never subscribed
InitAutoSaveAlone ==
    Init /\ options = DefaultOptions /\ tileInputs = NoTileInputs

SpecAutoSave == InitAutoSaveAlone /\ [][NextAutoSave]_vars

\* useAutoSave with a caller that stops after a save(), an endpoint on which
\* every write succeeds, a debounce timer that fires when it is due and
\* onSave promises that settle
SpecAutoSaveSettles ==
    /\ InitAutoSaveAlone
    /\ [][NextAutoSaveSettles]_vars
    /\ WF_vars(debouncedInvoke)
    /\ WF_vars(\E w \in Writes : onSaveResolved(w))

\* useWebSocket alone, next to a useAutoSave that is never used
InitWebSocketAlone == Init /\ tileInputs = NoTileInputs

SpecWebSocket == InitWebSocketAlone /\ [][NextWebSocket]_vars

Next ==
    \/ NextAutoSave
    \/ NextWebSocket
    \/ NextPolling
    \/ NextRangeSelection
    \/ NextTileProgress

Spec == Init /\ [][Next]_vars

\* ------------------------------------------------------------------------
\* Properties of useAutoSave
\* ------------------------------------------------------------------------

\* The payload held by the backup record of page p, NoPayload if there is none
backupLines(p) ==
    IF localStorage[backupKey(p)] = NoItem
    THEN NoPayload
    ELSE JSONparse(localStorage[backupKey(p)]).lines

\* C1: no edit is lost.  As long as the payload of the most recent save() has
\* not been confirmed by a successful remote write carrying that payload and
\* clearBackup() has not been called, the backup record of its owner key
\* exists and holds that payload.
C1_NoEditLost ==
    (lastSave # NoPayload /\ ~lastSaveConfirmed /\ ~lastSaveCleared)
        => backupLines(lastSave.pg) = lastSave

\* C2: at most one remote write of the instance is in flight at any time.
C2_OneWriteInFlight == BagCardinality(inFlight) <= 1

\* C6: after a page switch no remote write addressed to a page carries a
\* payload that was passed to save() for another page (so that the backup
\* key of the new page is never deleted on behalf of the old page's payload).
C6_NoCrossPageWrite ==
    \A w \in BagToSet(inFlight) : w.page = w.lines.pg

\* C7: the caller of forceSave observes a rejection exactly when the remote
\* write issued by forceSave failed, and a fulfilment exactly when it
\* succeeded.
C7_ForceSavePropagates ==
    forceOutcome.settled # "none" =>
        /\ forceOutcome.writeOk => forceOutcome.settled = "resolved"
        /\ ~forceOutcome.writeOk => forceOutcome.settled = "rejected"

\* C8: debounce coalescing.  The N save() calls of one debounce window make
\* exactly N local backup writes; no remote write is made for the window
\* while its timer is pending, and when the timer fires exactly one remote
\* write is made, carrying the payload of the last of the N calls.
C8_DebounceCoalescing ==
    /\ window.localWrites = window.calls
    /\ debounceTimer.pending => window.remoteWrites = 0 /\ window.calls >= 1
    /\ window.remoteWrites <= 1
    /\ window.remoteWrites = 1 =>
          /\ ~debounceTimer.pending
          /\ window.sent = lastSave

\* A window of at least two save() calls with different payloads has fired.
C8_Witness ==
    /\ window.remoteWrites = 1
    /\ window.calls >= 2
    /\ window.differ

\* A remote write of the given origin is started in this step
writeStarted(origin) ==
    \E w \in Writes : /\ w.origin = origin
                      /\ CopiesIn(w, inFlight') > CopiesIn(w, inFlight)

\* A remote write settles (resolves or rejects) in this step
writeSettled == BagCardinality(inFlight') < BagCardinality(inFlight)

\* save() is called in this step: the call is counted in the debounce window
\* it opens or extends
saveCalled ==
    /\ window'.remoteWrites = 0
    /\ window'.calls = (IF debounceTimer.pending THEN window.calls ELSE 0) + 1

\* C12: forceSave cancels any pending debounced write before it issues its
\* own.  No debounce timer is pending when a forceSave call has started its
\* write; a timer becomes pending only by a save() call, with the payload of
\* that call; a debounced write is started only by a pending timer; and the
\* settling of a write, successful or not, leaves the timer as it is.  So
\* after a forceSave no write is issued by a timer that a save() call made
\* before it had scheduled.
C12_ForceSaveCancelsDebounce ==
    [][/\ writeStarted("force") => ~debounceTimer'.pending
       /\ (debounceTimer'.pending /\ debounceTimer' # debounceTimer) =>
             saveCalled /\ debounceTimer'.lastArgs = lastSave'
       /\ writeStarted("debounce") =>
             debounceTimer.pending /\ ~debounceTimer'.pending
       /\ writeSettled => debounceTimer' = debounceTimer]_vars

\* The only write issued so far is a forced one that failed, after a save()
\* whose timer never fired and is no longer pending.
C12_Witness ==
    /\ autoSaveMounted
    /\ writesIssued = 1
    /\ forceOutcome.settled # "none" /\ ~forceOutcome.writeOk
    /\ hasUnsavedChanges
    /\ lastSave # NoPayload
    /\ ~debounceTimer.pending

\* C13: save(P) is local-first.  save() is one synchronous task, so whenever
\* a save(P) call has returned, and whenever the debounce timer has been
\* (re)scheduled, the backup record of the current page has been written
\* with P: a getBackup() issued at once returns a record whose payload is P,
\* and P is the payload the timer will send.
C13_SaveIsLocalFirst ==
    [][(saveCalled \/ (debounceTimer'.pending /\ debounceTimer' # debounceTimer)) =>
          /\ localStorage'[backupKey(pageId')] # NoItem
          /\ getBackup'.lines = lastSave'
          /\ debounceTimer'.pending
          /\ debounceTimer'.lastArgs = lastSave']_vars

\* A second save() of the same window has replaced the backup of the first
\* with another payload, and the write is still only scheduled.
C13_Witness ==
    /\ debounceTimer.pending
    /\ window.calls = 2
    /\ window.differ
    /\ window.remoteWrites = 0
    /\ localStorage[backupKey(pageId)] # NoItem
    /\ getBackup.lines = lastSave

\* C14: on every successful remote write (debounced or forced, of any
\* payload) of a mounted instance the backup record is deleted, so that
\* getBackup() returns null, lastSaved is the current time, hasUnsavedChanges
\* is false and error is null.
C14_SuccessfulWriteEffects ==
    [][\A w \in Writes :
          (autoSaveMounted /\ onSaveResolved(w)) =>
              /\ localStorage'[backupKey(pageId')] = NoItem
              /\ lastSaved' = now'
              /\ ~hasUnsavedChanges'
              /\ error' = "null"]_vars

\* C15: on every failed remote write (debounced or forced, also a forceSave
\* that no save() preceded) of a mounted instance error is non-null,
\* hasUnsavedChanges is true afterwards, lastSaved is unchanged and the
\* backup records are left exactly as they were.
C15_FailedWriteEffects ==
    [][\A w \in Writes :
          (autoSaveMounted /\ onSaveRejected(w)) =>
              /\ error' # "null"
              /\ hasUnsavedChanges'
              /\ lastSaved' = lastSaved
              /\ localStorage' = localStorage]_vars

C17_UnmountCancelsTimerKeepsBackup ==
    [][/\ (autoSaveMounted /\ ~autoSaveMounted') =>
             /\ ~debounceTimer'.pending
             /\ localStorage' = localStorage
             /\ (debounceTimer.pending /\ ~lastSaveCleared
                                        /\ ~lastSaveConfirmed) =>
                   backupLines(lastSave.pg)' = debounceTimer.lastArgs
       /\ ~autoSaveMounted =>
             /\ writesIssued' = writesIssued
             /\ ~debounceTimer'.pending]_vars

\* C33: the unsaved-changes flag is sound.  While the instance is mounted
\* and the payload of the latest save() call has not been written remotely
\* with success, hasUnsavedChanges is true; the completion of an older write
\* does not reset it.
C33_UnsavedFlagSound ==
    (autoSaveMounted /\ lastSave # NoPayload /\ ~lastSaveConfirmed)
        => hasUnsavedChanges

\* C34: isSaving reflects the writes in flight.  While the instance is
\* mounted, isSaving is true if and only if at least one remote write it
\* started has neither resolved nor rejected.
C34_IsSavingReflectsInFlight ==
    autoSaveMounted => (isSaving <=> BagCardinality(inFlight) >= 1)

\* The payload of the last save() call, and nothing else of its debounce
\* window, has been written remotely and the hook is at rest
settled ==
    /\ lastSaveConfirmed
    /\ window.remoteWrites = 1
    /\ window.sent = lastSave
    /\ ~hasUnsavedChanges
    /\ ~isSaving
    /\ error = "null"
    /\ localStorage[backupKey(pageId)] = NoItem

\* C38: auto-save eventually settles.  If save(P) is the last call made on a
\* live instance, timers are fair and every remote write succeeds, then
\* eventually exactly the payload P has been written remotely,
\* hasUnsavedChanges and isSaving are false, the error is null and
\* getBackup() returns null.
C38_AutoSaveSettles == callerDone ~> settled

\* The caller has stopped after a save() that replaced an earlier payload
\* of the same window, and the hook has settled on the last one.
C38_Witness ==
    /\ callerDone
    /\ settled
    /\ window.calls = 2
    /\ window.differ


\* Socket i receives its close event in this step
closeEvent(i) ==
    /\ i \in 1..Len(sockets)
    /\ sockets[i].readyState # "closed"
    /\ sockets'[i].readyState = "closed"

\* No timer is added in this step that reconnects to task t
noNewTimerFor(t) ==
    \A tm \in BagToSet(timers') :
        tm.task = t => CopiesIn(tm, timers') <= CopiesIn(tm, timers)

\* C3: once a terminal snapshot has been received for a task, no reconnect
\* to that task is scheduled any more, whatever close events occur.
C3_NoReconnectAfterTerminal ==
    [][\A t \in terminalSeen : noNewTimerFor(t)]_vars

\* C4: terminal statuses are absorbing.  Once a terminal snapshot has been
\* observed for a task id, a later snapshot for that task id is neither
\* delivered to onMessage nor does it replace the exposed snapshot.
C4_TerminalAbsorbing ==
    [][\A t \in terminalSeen :
          /\ onMessageCalls'[t] = onMessageCalls[t]
          /\ taskData.task_id = t => taskData' = taskData]_vars

\* C5: after an unmount or a task switch no connection to the old task is
\* live: every socket that is connecting or open belongs to the task the
\* mounted hook is currently subscribed to.
C5_TeardownClosesOldTask ==
    \A i \in 1..Len(sockets) :
        sockets[i].readyState \in {"connecting", "open"} =>
            wsMounted /\ sockets[i].task = taskId

\* The policy of the backoff schedule: base 2000 ms and 5 attempts unless the
\* options say otherwise
C9_Base == IF options.reconnectInterval = Undefined THEN 2000
           ELSE options.reconnectInterval

C9_Max == IF options.reconnectAttempts = Undefined THEN 5
          ELSE options.reconnectAttempts

\* C9: backoff schedule.  A close event that finds a non-terminal last-known
\* status after k earlier such closes since the last open event schedules
\* exactly one reconnect with delay base * 2^k when k < maxAttempts, and
\* schedules nothing when k has reached maxAttempts (base 2000 and
\* maxAttempts 5 unless the options say otherwise).
C9_BackoffSchedule ==
    [][\A i \in 1..Len(sockets) :
          (closeEvent(i) /\ ~isTerminal(taskStatusRef)) =>
              IF closesSinceOpen < C9_Max
              THEN timers' = timers (+) SetToBag({[task |-> sockets[i].task,
                                 delay |-> C9_Base * (2 ^ closesSinceOpen)]})
              ELSE timers' = timers]_vars

\* A close event has found k = maxAttempts after maxAttempts scheduled
\* reconnects.
C9_Witness == closesSinceOpen = maxAttempts + 1

\* C10: exhausting maxAttempts is silent and final.  The close event that
\* finds attempts = maxAttempts with a non-terminal status invokes no
\* onError, and from then on, as long as the hook is not subscribed anew, the
\* exposed connection state is closed and no timer or socket is created.
C10_ExhaustionSilentAndFinal ==
    [][/\ \A i \in 1..Len(sockets) :
             (closeEvent(i) /\ ~isTerminal(taskStatusRef)
                            /\ attemptsRef = maxAttempts)
                 => onErrorCalls' = onErrorCalls
       /\ (exhausted /\ exhausted' /\ wsMounted') =>
             /\ status' = "closed"
             /\ \A t \in Tasks : noNewTimerFor(t)
             /\ Len(sockets') = Len(sockets)]_vars

\* Socket i receives its open event in this step
openEvent(i) ==
    /\ i \in 1..Len(sockets)
    /\ sockets[i].readyState = "connecting"
    /\ sockets'[i].readyState = "open"

\* C11: every successful open resets the attempt counter to 0.  The first
\* close event after an open (with a non-terminal status) therefore schedules
\* its reconnect with the base interval, and the attempts already used are
\* exactly the non-terminal closes since the last open, so that the whole
\* budget of maxAttempts is available again after the open, however many
\* attempts preceded it.
C11_OpenResetsAttempts ==
    [][/\ \A i \in 1..MaxSockets : openEvent(i) => attemptsRef' = 0
       /\ \A i \in 1..Len(sockets) :
             (closeEvent(i) /\ ~isTerminal(taskStatusRef)
                            /\ closesSinceOpen = 0 /\ C9_Max > 0) =>
                 timers' = timers (+) SetToBag({[task |-> sockets[i].task,
                                                 delay |-> C9_Base]})
       /\ attemptsRef' = IF closesSinceOpen' < C9_Max
                         THEN closesSinceOpen' ELSE C9_Max]_vars

\* One subscription, no message: the first socket failed (one attempt used),
\* the socket of the reconnect opened and was closed in turn, and that close
\* scheduled a reconnect with the base interval as the first attempt.
C11_Witness ==
    /\ subscriptions = 1
    /\ SumOver(onMessageCalls, Tasks) = 0
    /\ Len(sockets) = 2
    /\ sockets[1].readyState = "closed"
    /\ sockets[2].readyState = "closed"
    /\ closesSinceOpen = 1
    /\ attemptsRef = 1
    /\ \E t \in Tasks : BagIn([task |-> t, delay |-> interval], timers)

\* C22: a transport error event only invokes onError.  It leaves the exposed
\* connection state, the attempt counter, the last-known task status and the
\* exposed snapshot unchanged and schedules no reconnect; the connection
\* state becomes closed only in a step that delivers a close event.
C22_ErrorEventFrame ==
    [][/\ onErrorCalls' # onErrorCalls =>
             /\ onErrorCalls' = onErrorCalls + 1
             /\ UNCHANGED <<status, attemptsRef, taskStatusRef, taskData,
                            timers, sockets, wsRef>>
       /\ (status # "closed" /\ status' = "closed") =>
             \E i \in 1..Len(sockets) : closeEvent(i)]_vars

\* An error event was delivered on the only socket, which is open, and no
\* reconnect was counted or scheduled.
C22_Witness ==
    /\ onErrorCalls >= 1
    /\ subscriptions = 1
    /\ Len(sockets) = 1
    /\ sockets[1].readyState = "open"
    /\ status = "open"
    /\ attemptsRef = 0
    /\ timers = EmptyBag

\* C23: a malformed (unparseable) message is discarded in isolation.  The
\* step that handles it changes neither the connection state, the attempt
\* counter, the last-known status nor the exposed snapshot, invokes no
\* onMessage and leaves the socket as it is; and a well-formed message that
\* arrives on a connection after a malformed one is processed as always: it
\* is exposed, recorded as the last-known status and handed to onMessage.
C23_MalformedMessageDiscarded ==
    [][/\ parseErrors' # parseErrors =>
             /\ parseErrors' = parseErrors + 1
             /\ UNCHANGED <<status, attemptsRef, taskStatusRef, taskData,
                            onMessageCalls, onErrorCalls, sockets, wsRef,
                            timers>>
       /\ \A i \in 1..Len(sockets), st \in Statuses :
             (parseErrors > 0 /\ wsMounted /\ onmessage(i, st)) =>
                 /\ taskData' = [task_id |-> sockets[i].task, status |-> st]
                 /\ taskStatusRef' = st
                 /\ onMessageCalls'[sockets[i].task] =
                        onMessageCalls[sockets[i].task] + 1]_vars

\* On the only connection a malformed message was handled and then the
\* terminal snapshot, which was exposed and made the handler close the socket.
C23_Witness ==
    /\ parseErrors = 1
    /\ subscriptions = 1
    /\ Len(sockets) = 1
    /\ sockets[1].readyState = "closing"
    /\ taskData.status = "completed"
    /\ SumOver(onMessageCalls, Tasks) = 1
    /\ wsMounted

\* A timer that reconnects to task t is added in this step
newTimerFor(t) ==
    \E tm \in BagToSet(timers') :
        tm.task = t /\ CopiesIn(tm, timers') > CopiesIn(tm, timers)

\* C35: task switch isolation.  Whether a close of the current task's
\* connection schedules a reconnect depends on the snapshots received for
\* that task and on the attempts only: when no terminal snapshot was
\* received for the current task and the attempts are not used up, the
\* close of its connection schedules a reconnect to it, whatever status was
\* recorded while another task was subscribed.
C35_TaskSwitchIsolation ==
    [][\A i \in 1..MaxSockets :
          (/\ onclose(i)
           /\ wsMounted
           /\ sockets[i].task = taskId
           /\ taskId \notin terminalSeen
           /\ attemptsRef < maxAttempts)
              => newTimerFor(taskId)]_vars

\* C36: at most one push connection is live.  At most one socket created
\* by the instance is connecting or open, and while the most recently
\* created socket is connecting or open the exposed connection state is the
\* state of that socket: the close event of an older socket does not
\* overwrite it.
C36_OneLiveConnection ==
    /\ Cardinality({i \in 1..Len(sockets) :
                       sockets[i].readyState \in {"connecting", "open"}}) <= 1
    /\ (wsMounted /\ sockets # <<>>
                  /\ sockets[Len(sockets)].readyState \in {"connecting", "open"})
           => status = sockets[Len(sockets)].readyState

\* ------------------------------------------------------------------------
\* Properties of useTaskPolling
\* ------------------------------------------------------------------------

\* C18: polling schedule.  A response with a non-terminal status to a live
\* run schedules the next poll 2000 ms later, a fetch error schedules it
\* 5000 ms later, and once a response with status completed or failed has
\* been handled the run has no poll scheduled and no request in flight any
\* more.
C18_PollingSchedule ==
    [][\A r \in 1..Len(pollRuns) :
          /\ \A st \in Statuses :
                (pollResponse(r, st) /\ ~pollRuns[r].cancelled
                     /\ st \notin {"completed", "failed"}) =>
                    pollRuns'[r].timers = pollRuns[r].timers (+) SetToBag({2000})
          /\ (pollError(r) /\ ~pollRuns[r].cancelled) =>
                pollRuns'[r].timers = pollRuns[r].timers (+) SetToBag({5000})
          /\ pollRuns'[r].finished =>
                /\ pollRuns'[r].timers = EmptyBag
                /\ pollRuns'[r].requests = 0]_vars

\* A live run has a retry scheduled after a fetch error, following a poll
\* that was scheduled by a non-terminal response.
C18_Witness ==
    \E r \in 1..Len(pollRuns) :
        /\ ~pollRuns[r].cancelled
        /\ pollRuns[r].timers = SetToBag({5000})
        /\ pollTaskData.task_id = pollRuns[r].task
        /\ pollTaskData.status = "running"
        /\ pollsIssued >= 2

\* C19: cancellation suppresses stale callbacks.  For a run that has been
\* cancelled (unmount or task id switch), a response or an error of its
\* request in flight changes neither the exposed snapshot nor isPolling and
\* schedules no poll, and a timer of it that fires issues no request.
C19_CancellationSuppresses ==
    [][\A r \in 1..Len(pollRuns) :
          pollRuns[r].cancelled =>
              /\ pollRuns'[r].cancelled
              /\ BagCardinality(pollRuns'[r].timers)
                     <= BagCardinality(pollRuns[r].timers)
              /\ pollRuns'[r].requests <= pollRuns[r].requests
              /\ pollRuns'[r] # pollRuns[r] =>
                    /\ pollTaskData' = pollTaskData
                    /\ isPolling' = isPolling
                    /\ pollsIssued' = pollsIssued]_vars

\* A response has arrived for a run after the task id was switched, and a
\* timer of a cancelled run has fired.
C19_Witness ==
    /\ \E r \in 1..Len(pollRuns) : "response" \in pollRuns[r].suppressed
    /\ \E r \in 1..Len(pollRuns) : "timer" \in pollRuns[r].suppressed
    /\ pollMounted

\* C20: the requests of one run never overlap: at most one getTaskStatus
\* request of a run is in flight at any time, and a run never has a request
\* in flight and a poll scheduled together.
C20_NoOverlappingPolls ==
    \A r \in 1..Len(pollRuns) :
        pollRuns[r].requests + BagCardinality(pollRuns[r].timers) <= 1

\* A run has issued a further request after its previous one completed.
C20_Witness ==
    /\ Len(pollRuns) = 1
    /\ pollsIssued = MaxPolls
    /\ pollRuns[1].requests = 1

\* Run r is live: it exists, is not cancelled and has handled no terminal
\* snapshot
pollLive(r) ==
    /\ r \in 1..Len(pollRuns)
    /\ ~pollRuns[r].cancelled
    /\ ~pollRuns[r].finished

\* C21: polling never gives up on its own.  A live run always has a request
\* in flight or a poll scheduled, whatever number of fetch errors it has
\* met; under fair timers a scheduled poll of a live run leads to a request
\* being issued (as long as the run stays live); and a terminal snapshot
\* answered to a live run is exposed at once and ends the polling.
C21_PollingNeverGivesUp ==
    /\ [](\A r \in 1..MaxPollRuns :
             pollLive(r) =>
                 pollRuns[r].requests + BagCardinality(pollRuns[r].timers) >= 1)
    /\ \A r \in 1..MaxPollRuns :
          (pollLive(r) /\ pollRuns[r].timers # EmptyBag /\ pollsIssued < MaxPolls)
              ~> (~pollLive(r) \/ pollRuns[r].requests > 0)
    /\ [][\A r \in 1..MaxPollRuns, st \in {"completed", "failed"} :
            (pollLive(r) /\ pollResponse(r, st)) =>
                /\ pollTaskData' = [task_id |-> pollRuns[r].task, status |-> st]
                /\ ~isPolling'
                /\ pollRuns'[r].finished]_vars

\* The only run has met fetch errors on all its requests but the one now in
\* flight: no snapshot was ever received and it is polling again.
C21_Witness ==
    /\ Len(pollRuns) = 1
    /\ pollLive(1)
    /\ pollTaskData = NoData
    /\ pollsIssued = MaxPolls
    /\ pollRuns[1].requests = 1
    /\ isPolling

\* C37: the snapshot exposed by useTaskPolling belongs to its current task
\* id.  With a non-null task id, taskData is null or a snapshot returned by
\* a status request for that task id; after a switch from A to B no snapshot
\* of A is exposed.
C37_SnapshotOfCurrentTask ==
    (pollMounted /\ pollTaskId # NoTask) =>
        (pollTaskData = NoData \/ pollTaskData.task_id = pollTaskId)

\* ------------------------------------------------------------------------
\* Properties of useRangeSelection
\* ------------------------------------------------------------------------

\* x is an element of the ordered sequence S, and its position in it
inSeq(S, x) == \E k \in 1..Len(S) : S[k] = x

pos(S, x) == CHOOSE k \in 1..Len(S) : S[k] = x

\* The ids of S at the positions between those of a and x, both included
slice(S, a, x) ==
    LET lo == IF pos(S, a) < pos(S, x) THEN pos(S, a) ELSE pos(S, x)
        hi == IF pos(S, a) < pos(S, x) THEN pos(S, x) ELSE pos(S, a)
    IN  {S[k] : k \in lo..hi}

\* The modifiers of an activation
NoModifiers == [metaKey |-> FALSE, ctrlKey |-> FALSE, shiftKey |-> FALSE]

RangeOnly == [metaKey |-> FALSE, ctrlKey |-> FALSE, shiftKey |-> TRUE]

ToggleOnly == {event \in Events : (event.metaKey \/ event.ctrlKey) /\ ~event.shiftKey}

\* The last call was an activation with exactly these modifiers
lastActivation(meta, shift) ==
    /\ lastCall.op = "onItemClick"
    /\ lastCall.isMeta = meta
    /\ lastCall.isShift = shift

\* C24: range activation.  With the anchor a and the id x both in the
\* ordered sequence S, activate(x, range only) yields exactly the ids at the
\* positions min(pos(a), pos(x)) .. max(pos(a), pos(x)) of S and leaves the
\* anchor at a; so on S = [a,b,c,d,e] plain(b) then range(d) and plain(d)
\* then range(b) both give {b,c,d}.
C24_RangeActivation ==
    /\ \A x \in Ids :
          (queued.anchorId # NoId /\ inSeq(orderedIds, queued.anchorId)
                                  /\ inSeq(orderedIds, x)) =>
              onItemClickUpdater(queued, orderedIds, x, RangeOnly) =
                  [selectedIds |-> slice(orderedIds, queued.anchorId, x),
                   anchorId |-> queued.anchorId]
    /\ LET S == <<"a", "b", "c", "d", "e">>
           bd == onItemClickUpdater(
                     onItemClickUpdater(EmptyState, S, "b", NoModifiers),
                     S, "d", RangeOnly)
           db == onItemClickUpdater(
                     onItemClickUpdater(EmptyState, S, "d", NoModifiers),
                     S, "b", RangeOnly)
       IN  /\ bd.selectedIds = {"b", "c", "d"}
           /\ db.selectedIds = {"b", "c", "d"}

\* A range activation from the anchor to an id two positions away has
\* selected the three ids of the sequence.
C24_Witness ==
    /\ lastActivation(FALSE, TRUE)
    /\ queued.anchorId # NoId
    /\ queued.anchorId # lastCall.id
    /\ Len(orderedIds) = 3
    /\ queued.selectedIds = slice(orderedIds, queued.anchorId, lastCall.id)
    /\ Cardinality(queued.selectedIds) = 3

\* C25: range fallback.  activate(id, range only) when the anchor is unset,
\* or when the anchor or the id is not in the ordered sequence, behaves like
\* a plain activation: selectedIds becomes {id} and the anchor becomes id.
C25_RangeFallback ==
    \A x \in Ids :
        (queued.anchorId = NoId \/ ~inSeq(orderedIds, queued.anchorId)
                                \/ ~inSeq(orderedIds, x)) =>
            onItemClickUpdater(queued, orderedIds, x, RangeOnly) =
                [selectedIds |-> {x}, anchorId |-> x]

\* A range activation of an id that is in the sequence, with an anchor that
\* is not, has selected that id alone and made it the anchor.
C25_Witness ==
    /\ lastActivation(FALSE, TRUE)
    /\ state.anchorId # NoId
    /\ state.anchorId # lastCall.id
    /\ ~inSeq(orderedIds, state.anchorId)
    /\ inSeq(orderedIds, lastCall.id)
    /\ queued = [selectedIds |-> {lastCall.id}, anchorId |-> lastCall.id]

\* C26: plain activation.  activate(id, no modifiers) in any state, for any
\* id, in the ordered sequence or not, yields selectedIds = {id} and
\* anchorId = id.
C26_PlainActivation ==
    \A x \in Ids :
        onItemClickUpdater(queued, orderedIds, x, NoModifiers) =
            [selectedIds |-> {x}, anchorId |-> x]

\* A plain activation of an id outside the ordered sequence has replaced a
\* selection of several ids.
C26_Witness ==
    /\ lastActivation(FALSE, FALSE)
    /\ ~inSeq(orderedIds, lastCall.id)
    /\ Cardinality(state.selectedIds) >= 2
    /\ queued = [selectedIds |-> {lastCall.id}, anchorId |-> lastCall.id]

\* C27: toggle activation.  activate(id, toggle only) flips the membership
\* of id in selectedIds and leaves the membership of every other id and the
\* anchor unchanged, also when id is the anchor and when the anchor is null.
C27_ToggleActivation ==
    \A x \in Ids, event \in ToggleOnly :
        LET next == onItemClickUpdater(queued, orderedIds, x, event) IN
        /\ (x \in next.selectedIds) = (x \notin queued.selectedIds)
        /\ \A y \in Ids \ {x} :
              (y \in next.selectedIds) = (y \in queued.selectedIds)
        /\ next.anchorId = queued.anchorId

\* A toggle has removed the anchor from a selection that keeps other ids.
C27_Witness ==
    /\ lastActivation(TRUE, FALSE)
    /\ queued.anchorId = lastCall.id
    /\ lastCall.id \notin queued.selectedIds
    /\ queued.selectedIds # {}

\* C28: toggle is an involution.  In every reachable state, for every id x,
\* two toggle activations of x in immediate succession yield the
\* selectedIds and the anchorId they started from.
C28_ToggleInvolution ==
    \A x \in Ids, event \in ToggleOnly :
        onItemClickUpdater(onItemClickUpdater(queued, orderedIds, x, event),
                           orderedIds, x, event) = queued

\* A toggle has been applied in a state without anchor, and the toggled id
\* is selected next to another one.
C28_Witness ==
    /\ lastActivation(TRUE, FALSE)
    /\ queued.anchorId = NoId
    /\ lastCall.id \in queued.selectedIds
    /\ Cardinality(queued.selectedIds) >= 2

C30_Clear ==
    /\ lastCall.op = "clear" =>
          /\ queued = [selectedIds |-> {}, anchorId |-> NoId]
          /\ \A x \in Ids :
                onItemClickUpdater(queued, orderedIds, x, RangeOnly) =
                    [selectedIds |-> {x}, anchorId |-> x]
    /\ \A x \in Ids : isSelected(x) = (x \in state.selectedIds)

\* clear() was called on a rendered state with a selection and an anchor.
C30_Witness ==
    /\ lastCall.op = "clear"
    /\ state.selectedIds # {}
    /\ state.anchorId # NoId
    /\ inSeq(orderedIds, state.anchorId)

\* C32: every activation with the range (Shift) modifier while there is no
\* anchor behaves like a plain click (selectedIds = {id}, anchorId = id),
\* also when the toggle (Ctrl/Cmd) modifier is set in the same event; and
\* when both modifiers are set and the anchor and the id are in the ordered
\* sequence, the range rule applies and the toggle modifier is ignored.
C32_ShiftWithoutAnchorIsPlain ==
    \A x \in Ids, event \in {e \in Events : e.shiftKey} :
        /\ queued.anchorId = NoId =>
              onItemClickUpdater(queued, orderedIds, x, event) =
                  [selectedIds |-> {x}, anchorId |-> x]
        /\ (queued.anchorId # NoId /\ inSeq(orderedIds, queued.anchorId)
                                   /\ inSeq(orderedIds, x)) =>
              onItemClickUpdater(queued, orderedIds, x, event) =
                  [selectedIds |-> slice(orderedIds, queued.anchorId, x),
                   anchorId |-> queued.anchorId]

\* ------------------------------------------------------------------------
\* Properties of getTileInferenceProgress
\* ------------------------------------------------------------------------

\* The position of the first occurrence of x in arr, counted from 0
index(arr, x) ==
    (CHOOSE k \in 1..Len(arr) :
         arr[k] = x /\ \A j \in 1..(k - 1) : arr[j] # x) - 1

\* C31: for a task neither failed nor completed and a pageId contained in
\* ids the result is processing when pageId = progress.page_id, otherwise
\* completed when index(pageId) < progress.current, processing when it
\* equals progress.current (0 when absent) and pending when it is greater;
\* it is failed/0 or completed/100 for every listed page of a failed or
\* completed task, and undefined without task or for a pageId not in ids.
C31_TileInferenceProgress ==
    tileResult # NotCalled =>
        LET task == tileInputs.task
            ids == tileInputs.inferencePageIds
            page == tileInputs.pageId
            listed == \E k \in 1..Len(ids) : ids[k] = page
            current == IF task.progress.current = Undefined
                       THEN 0 ELSE task.progress.current
        IN  /\ (task = NullTask \/ ~listed) => tileResult = UndefinedResult
            /\ (task # NullTask /\ listed) =>
                  /\ task.status = "failed" =>
                        tileResult = [status |-> "failed", progress |-> 0]
                  /\ task.status = "completed" =>
                        tileResult = [status |-> "completed", progress |-> 100]
                  /\ task.status \notin {"failed", "completed"} =>
                        tileResult.status =
                            IF task.progress.page_id = page THEN "processing"
                            ELSE IF index(ids, page) < current THEN "completed"
                            ELSE IF index(ids, page) = current THEN "processing"
                            ELSE "pending"

\* The first listed page of a running task without progress.current, whose
\* progress.page_id is another page, is shown as processing.
C31_Witness ==
    /\ tileInputs.task.status = "running"
    /\ tileInputs.task.progress.current = Undefined
    /\ tileInputs.task.progress.page_id \notin {Undefined, tileInputs.pageId}
    /\ Len(tileInputs.inferencePageIds) = 3
    /\ tileInputs.inferencePageIds[1] = tileInputs.pageId
    /\ tileResult.status = "processing"

====
